---- MODULE Spec2Model ----
(***************************************************************************)
(* LP-Solver (src/app.py): a Streamlit form that collects a two-variable   *)
(* linear program, rewrites it into the matrices scipy's linprog takes,    *)
(* calls linprog(method='simplex') with a recording callback, and shows    *)
(* the optimum and a de-duplicated iteration table.                        *)
(*                                                                         *)
(* Numbers.  The form's floats are modelled by exact rationals <<n, d>>    *)
(* in lowest terms with d > 0; form inputs are integers.  Rounding to 2 or *)
(* 3 decimals for display (lines 142-144, 166, 175) is not modelled: the   *)
(* properties below are about the values handed to the display.            *)
(*                                                                         *)
(* linprog.  scipy is not part of the repository.  Its answer is modelled  *)
(* by the contract the handler relies on (Linprog* definitions below):     *)
(* status 0 with a vertex minimising c.x over A_ub x <= b_ub, A_eq x =     *)
(* b_eq, x >= 0; status 2 when that region is empty; status 3 when c.x is  *)
(* unbounded below on it.  Which optimal vertex is returned, and which    *)
(* iterates lie between the first and the last one the callback sees, is  *)
(* left open.  Exact arithmetic never meets scipy's iteration limit or    *)
(* numerical failure (status 1, 4), and the call raises nothing, so the    *)
(* except branch of lines 178-179 is not reached.                          *)
(***************************************************************************)
EXTENDS Integers, Sequences, FiniteSets

VARIABLES
    reset_counter,      \* st.session_state.reset_counter
    mode,               \* "Goal" selectbox
    c1, c2,             \* objective coefficients
    constraints_data,   \* rows of the constraints form
    pc,                 \* "form": nothing shown; "shown": a solve was rendered;
                        \* "raw" / "cleaned": the trace-cleaning harness
    error,              \* which st.error was shown by the last solve ("none" if none)
    c_scipy,            \* objective handed to linprog
    A_ub, b_ub, A_eq, b_eq,
    valid_constraints,
    linprog_called,     \* whether the last solve reached the linprog call
    iteration_logs,     \* what the callback recorded
    res,                \* linprog's OptimizeResult (status, success, x, fun)
    final_z,            \* metric "Optimal Z"
    final_xy,           \* metrics "Final X Value", "Final Y Value"
    table               \* the rendered iteration table, rows with their bold flag

formVars == <<reset_counter, mode, c1, c2, constraints_data>>
stdVars == <<c_scipy, A_ub, b_ub, A_eq, b_eq, valid_constraints>>
outVars == <<error, linprog_called, iteration_logs, res, final_z, final_xy, table>>
vars == <<formVars, pc, stdVars, outVars>>

-----------------------------------------------------------------------------
(* Bounds of the model *)

MaxCons == 2        \* rows of the constraints form that are enumerated
MaxTrace == 4       \* longest callback log that is enumerated
MaxReset == 2       \* resets that are followed
MaxRawLen == 4      \* longest raw trace given to the cleaning harness

(* Program constants *)

DefaultNumConstraints == 4      \* st.number_input("Total Constraints", 1, 10, 4)

None == "None"

-----------------------------------------------------------------------------
(* Exact rationals *)

Abs(n) == IF n < 0 THEN -n ELSE n

RECURSIVE GCD(_, _)
GCD(a, b) == IF b = 0 THEN a ELSE GCD(b, a % b)

Rat(n, d) ==
    LET g == GCD(Abs(n), Abs(d))
        s == IF d < 0 THEN -1 ELSE 1
    IN  <<(s * n) \div g, (s * d) \div g>>

Int2Rat(n) == <<n, 1>>
Zero == <<0, 1>>
RatNeg(p) == <<-p[1], p[2]>>
RatAdd(p, q) == Rat(p[1] * q[2] + q[1] * p[2], p[2] * q[2])
RatScale(k, p) == Rat(k * p[1], p[2])
RatLeq(p, q) == p[1] * q[2] <= q[1] * p[2]
RatLess(p, q) == p[1] * q[2] < q[1] * p[2]

\* a*x + b*y at the point pt = <<x, y>> (x, y rationals; a, b integers)
Dot(a, b, pt) == RatAdd(RatScale(a, pt[1]), RatScale(b, pt[2]))

-----------------------------------------------------------------------------
(* The objective and the standard-form matrices (lines 98-117) *)

\* a slip: the objective is handed over as entered, whatever the goal
CScipyNoFlip(m, x, y) == <<x, y>>

\* c_scipy = -c if mode == "Maximize" else c
CScipy(m, x, y) == IF m = "Maximize" THEN <<-x, -y>> ELSE <<x, y>>

\* if c1 == 0.0 and c2 == 0.0 (line 95)
ObjectiveEmpty(x, y) == x = 0 /\ y = 0

\* a slip: a row counts as empty only if its limit is zero too
IsEmptyRowRhs(con) == con.x = 0 /\ con.y = 0 /\ con.rhs = 0

\* if con["x"] == 0.0 and con["y"] == 0.0: continue (line 106)
IsEmptyRow(con) == con.x = 0 /\ con.y = 0

\* slips: a '>=' row appended without negating its coefficients, or its limit
NegRowKept(con) == <<con.x, con.y>>
NegRhsKept(con) == con.rhs

\* the row a '>=' constraint appends to A_ub, and its b_ub entry
NegRow(con) == <<-con.x, -con.y>>
NegRhs(con) == -con.rhs

\* The loop of lines 105-117, one constraint at a time.
RECURSIVE BuildStd(_, _)
BuildStd(cons, acc) ==
    IF cons = <<>> THEN acc
    ELSE LET con == Head(cons)
             row == <<con.x, con.y>>
             nxt ==
                IF IsEmptyRow(con) THEN acc
                ELSE IF con.rel = "<=" THEN
                    [acc EXCEPT !.valid = @ + 1,
                                !.A_ub = Append(@, row), !.b_ub = Append(@, con.rhs)]
                ELSE IF con.rel = ">=" THEN
                    [acc EXCEPT !.valid = @ + 1,
                                !.A_ub = Append(@, NegRow(con)),
                                !.b_ub = Append(@, NegRhs(con))]
                ELSE
                    [acc EXCEPT !.valid = @ + 1,
                                !.A_eq = Append(@, row), !.b_eq = Append(@, con.rhs)]
         IN  BuildStd(Tail(cons), nxt)

EmptyStd == [A_ub |-> <<>>, b_ub |-> <<>>, A_eq |-> <<>>, b_eq |-> <<>>, valid |-> 0]

StandardForm(cons) == BuildStd(cons, EmptyStd)

\* a slip: the constraints are tested before the objective
ValidationConstraintsFirst(x, y, valid) ==
    IF valid = 0 THEN "NoValidConstraints"
    ELSE IF ObjectiveEmpty(x, y) THEN "EmptyObjective"
    ELSE "none"

\* The two st.error exits taken before the solver (lines 95-96 and 120-121):
\* the objective is tested first, the count of valid constraints second.
Validation(x, y, valid) ==
    IF ObjectiveEmpty(x, y) THEN "EmptyObjective"
    ELSE IF valid = 0 THEN "NoValidConstraints"
    ELSE "none"

-----------------------------------------------------------------------------
(* linprog(c, A_ub, b_ub, A_eq, b_eq, method='simplex', callback) as the   *)
(* handler sees it (lines 129-133).  The default bounds are x >= 0, y >= 0.*)

Origin == <<Zero, Zero>>

\* every constraint as a line a*x + b*y = r, the two axes included
BoundaryLines(Aub, bub, Aeq, beq) ==
    {<<1, 0, 0>>, <<0, 1, 0>>}
    \cup {<<Aub[i][1], Aub[i][2], bub[i]>> : i \in DOMAIN Aub}
    \cup {<<Aeq[i][1], Aeq[i][2], beq[i]>> : i \in DOMAIN Aeq}

Det(l, k) == l[1] * k[2] - k[1] * l[2]

Intersection(l, k) ==
    <<Rat(l[3] * k[2] - k[3] * l[2], Det(l, k)),
      Rat(l[1] * k[3] - k[1] * l[3], Det(l, k))>>

NonNegative(pt) == RatLeq(Zero, pt[1]) /\ RatLeq(Zero, pt[2])

\* the basic solutions a simplex tableau can stand at: two boundary lines
\* meet there and both coordinates are >= 0
BasicPoints(Aub, bub, Aeq, beq) ==
    LET L == BoundaryLines(Aub, bub, Aeq, beq)
    IN  {pt \in {Intersection(q[1], q[2]) : q \in {r \in L \X L : Det(r[1], r[2]) # 0}} :
            NonNegative(pt)}

LinprogFeasible(pt, Aub, bub, Aeq, beq) ==
    /\ NonNegative(pt)
    /\ \A i \in DOMAIN Aub : RatLeq(Dot(Aub[i][1], Aub[i][2], pt), Int2Rat(bub[i]))
    /\ \A i \in DOMAIN Aeq : Dot(Aeq[i][1], Aeq[i][2], pt) = Int2Rat(beq[i])

\* directions along which the region can be left open: the axes and the
\* constraint lines, oriented into the quadrant
RayCandidates(Aub, Aeq) ==
    {<<1, 0>>, <<0, 1>>}
    \cup {<<Aub[i][2], -Aub[i][1]>> : i \in DOMAIN Aub}
    \cup {<<-Aub[i][2], Aub[i][1]>> : i \in DOMAIN Aub}
    \cup {<<Aeq[i][2], -Aeq[i][1]>> : i \in DOMAIN Aeq}
    \cup {<<-Aeq[i][2], Aeq[i][1]>> : i \in DOMAIN Aeq}

IsRecession(d, Aub, Aeq) ==
    /\ d[1] >= 0 /\ d[2] >= 0 /\ d # <<0, 0>>
    /\ \A i \in DOMAIN Aub : Aub[i][1] * d[1] + Aub[i][2] * d[2] <= 0
    /\ \A i \in DOMAIN Aeq : Aeq[i][1] * d[1] + Aeq[i][2] * d[2] = 0

\* OptimizeResult.status: 0 optimal, 2 infeasible, 3 unbounded
LinprogStatus(c, Aub, bub, Aeq, beq) ==
    LET F == {pt \in BasicPoints(Aub, bub, Aeq, beq) :
                LinprogFeasible(pt, Aub, bub, Aeq, beq)}
    IN  IF F = {} THEN 2
        ELSE IF \E d \in RayCandidates(Aub, Aeq) :
                    /\ IsRecession(d, Aub, Aeq)
                    /\ c[1] * d[1] + c[2] * d[2] < 0
             THEN 3
             ELSE 0

LinprogOptima(c, Aub, bub, Aeq, beq) ==
    LET F == {pt \in BasicPoints(Aub, bub, Aeq, beq) :
                LinprogFeasible(pt, Aub, bub, Aeq, beq)}
    IN  {pt \in F : \A q \in F : RatLeq(Dot(c[1], c[2], pt), Dot(c[1], c[2], q))}

\* def callback(res): iteration_logs.append({"Z": res.fun, "X": res.x[0], "Y": res.x[1]})
\* res.fun is c.x at the iterate
Callback(c, pt) == [Z |-> Dot(c[1], c[2], pt), X |-> pt[1], Y |-> pt[2]]

SeqsUpTo(S, n) == UNION {[1..k -> S] : k \in 0..n}

\* linprog's presolve turns every row that touches one variable into a bound
\* on it and drops the row: an '=' row fixes the variable, an A_ub row with a
\* negative coefficient raises its lower bound, one with a positive
\* coefficient lowers its upper bound.  v is 1 for x, 2 for y.
Other(v) == 3 - v

SingletonRows(A, v) == {i \in DOMAIN A : A[i][v] # 0 /\ A[i][Other(v)] = 0}

LowerBounds(v, Aub, bub, Aeq, beq) ==
    {Zero}
    \cup {Rat(beq[i], Aeq[i][v]) : i \in SingletonRows(Aeq, v)}
    \cup {Rat(bub[i], Aub[i][v]) : i \in {j \in SingletonRows(Aub, v) : Aub[j][v] < 0}}

UpperBounds(v, Aub, bub, Aeq, beq) ==
    {Rat(beq[i], Aeq[i][v]) : i \in SingletonRows(Aeq, v)}
    \cup {Rat(bub[i], Aub[i][v]) : i \in {j \in SingletonRows(Aub, v) : Aub[j][v] > 0}}

RatMax(S) == CHOOSE m \in S : \A q \in S : RatLeq(q, m)

LowerBound(v, Aub, bub, Aeq, beq) == RatMax(LowerBounds(v, Aub, bub, Aeq, beq))

\* a variable no row mentions, with a positive cost, is fixed at its lower bound
InNoRow(v, Aub, Aeq) ==
    /\ \A i \in DOMAIN Aub : Aub[i][v] = 0
    /\ \A i \in DOMAIN Aeq : Aeq[i][v] = 0

IsFixed(v, c, Aub, bub, Aeq, beq) ==
    \/ InNoRow(v, Aub, Aeq) /\ c[v] > 0
    \/ LowerBound(v, Aub, bub, Aeq, beq) \in UpperBounds(v, Aub, bub, Aeq, beq)

Couples(A) == \E i \in DOMAIN A : A[i][1] # 0 /\ A[i][2] # 0

\* No tableau is built, and the callback is never called, when presolve
\* leaves no row or no free variable.
SolvedInPresolve(c, Aub, bub, Aeq, beq) ==
    \/ ~Couples(Aub) /\ ~Couples(Aeq)
    \/ IsFixed(1, c, Aub, bub, Aeq, beq) /\ IsFixed(2, c, Aub, bub, Aeq, beq)

\* the basic solution the simplex starts from: every variable at its lower bound
StartPoint(Aub, bub, Aeq, beq) ==
    <<LowerBound(1, Aub, bub, Aeq, beq), LowerBound(2, Aub, bub, Aeq, beq)>>

\* What the callback has recorded when linprog returns the optimum x:
\* nothing when presolve settled the problem; otherwise the iterates of both
\* simplex phases, each of which reports at least once: a run of basic
\* solutions from the starting basis to x.
LinprogLogs(c, x, Aub, bub, Aeq, beq) ==
    LET P == {Callback(c, pt) : pt \in BasicPoints(Aub, bub, Aeq, beq)}
        first == Callback(c, StartPoint(Aub, bub, Aeq, beq))
        last == Callback(c, x)
    IN  IF SolvedInPresolve(c, Aub, bub, Aeq, beq)
        THEN {<<>>}
        ELSE {<<first>> \o mid \o <<last>> : mid \in SeqsUpTo(P, MaxTrace - 2)}

\* The pairs <<res, iteration_logs>> a call can end with.
Linprog(c, Aub, bub, Aeq, beq) ==
    LET st == LinprogStatus(c, Aub, bub, Aeq, beq)
    IN  IF st = 0
        THEN UNION {
                {<<[status |-> 0, success |-> TRUE, x |-> x, fun |-> Dot(c[1], c[2], x)], logs>> :
                    logs \in LinprogLogs(c, x, Aub, bub, Aeq, beq)} :
                x \in LinprogOptima(c, Aub, bub, Aeq, beq)}
        ELSE {<<[status |-> st, success |-> FALSE, x |-> None, fun |-> None], <<>>>>}

-----------------------------------------------------------------------------
(* The results block (lines 135-175) *)

\* a slip: the solver's value is shown without undoing the sign
FinalZNoFlip(m, fun) == IF fun = Zero THEN Zero ELSE fun

\* final_z = -res.fun if mode == "Maximize" else res.fun, then -0.0 -> 0.0
FinalZ(m, fun) ==
    LET z == IF m = "Maximize" THEN RatNeg(fun) ELSE fun
    IN  IF z = Zero THEN Zero ELSE z

\* pd.DataFrame(iteration_logs): one row per record, labelled 0, 1, ...
DataFrame(logs) ==
    [i \in 1..Len(logs) |-> [Step |-> i - 1, Z |-> logs[i].Z, X |-> logs[i].X, Y |-> logs[i].Y]]

\* iter_df["Z"] = -iter_df["Z"]
NegateZ(df) == [i \in DOMAIN df |-> [df[i] EXCEPT !.Z = RatNeg(@)]]

SameValues(r, q) == r.Z = q.Z /\ r.X = q.X /\ r.Y = q.Y

\* DataFrame.drop_duplicates(): a row stays unless an earlier row has the same
\* values in every column; rows that stay keep their labels
RECURSIVE DropFrom(_, _, _)
DropFrom(df, i, acc) ==
    IF i > Len(df) THEN acc
    ELSE DropFrom(df, i + 1,
                  IF \E j \in DOMAIN acc : SameValues(acc[j], df[i])
                  THEN acc ELSE Append(acc, df[i]))

\* a slip: only a row equal to the row just before it is dropped
RECURSIVE DropAdjacentFrom(_, _, _)
DropAdjacentFrom(df, i, acc) ==
    IF i > Len(df) THEN acc
    ELSE DropAdjacentFrom(df, i + 1,
                          IF i > 1 /\ SameValues(df[i - 1], df[i])
                          THEN acc ELSE Append(acc, df[i]))

DropAdjacentDuplicates(df) == DropAdjacentFrom(df, 1, <<>>)

DropDuplicates(df) == DropFrom(df, 1, <<>>)

\* a slip: the labels are left as drop_duplicates left them
ResetIndexKept(df) == df

\* .reset_index(drop=True)
ResetIndex(df) == [i \in DOMAIN df |-> [df[i] EXCEPT !.Step = i - 1]]

\* lines 158-160
IterDf(m, logs) ==
    ResetIndex(DropDuplicates(IF m = "Maximize" THEN NegateZ(DataFrame(logs))
                                                ELSE DataFrame(logs)))

\* bold_last_row: 'font-weight: bold' if row.name == len(iter_df) - 1
BoldLastRow(row, df) == row.Step = Len(df) - 1

\* st.table(iter_df.style.apply(bold_last_row, axis=1)...)
StyledTable(df) ==
    [i \in DOMAIN df |->
        [Step |-> df[i].Step, Z |-> df[i].Z, X |-> df[i].X, Y |-> df[i].Y,
         bold |-> BoldLastRow(df[i], df)]]

\* st.table(instant_df.style.format(...)): one row, no style function applied
InstantTable(z, x) ==
    <<[Step |-> 0, Z |-> z, X |-> x[1], Y |-> x[2], bold |-> FALSE]>>

\* the table shown for a successful solve (lines 154-175)
ResultTable(m, logs, z, x) ==
    IF logs # <<>> THEN StyledTable(IterDf(m, logs)) ELSE InstantTable(z, x)

-----------------------------------------------------------------------------
(* The form *)

Modes == {"Maximize", "Minimize"}
Relations == {"<=", ">=", "="}

ObjVals == {-1, 0, 1}
CoefVals == {-1, 0, 1}
RhsVals == {0, 2}

Rows == [x : CoefVals, y : CoefVals, rel : Relations, rhs : RhsVals]

\* Forms of one row take it from Rows, forms of two rows from CoreRows and
\* longer forms from FewRows.
CoreRows == [x : {0, 1}, y : {0, 1}, rel : Relations, rhs : {2}]

FewRows ==
    {[x |-> 1, y |-> 0, rel |-> "<=", rhs |-> 2],
     [x |-> 0, y |-> 1, rel |-> ">=", rhs |-> 2],
     [x |-> 1, y |-> 1, rel |-> "=", rhs |-> 2],
     [x |-> 0, y |-> 0, rel |-> ">=", rhs |-> 2]}

RowsFor(n) == IF n = 1 THEN Rows ELSE IF n = 2 THEN CoreRows ELSE FewRows

Forms == UNION {[1..n -> RowsFor(n)] : n \in 1..MaxCons}

\* a freshly rendered constraint row: value=0.0 everywhere, first relation
DefaultRow == [x |-> 0, y |-> 0, rel |-> "<=", rhs |-> 0]

\* Maximize 3000x + 5000y; x <= 4, 2y <= 12, 3x + 2y <= 18
TextbookRows ==
    <<[x |-> 1, y |-> 0, rel |-> "<=", rhs |-> 4],
      [x |-> 0, y |-> 2, rel |-> "<=", rhs |-> 12],
      [x |-> 3, y |-> 2, rel |-> "<=", rhs |-> 18]>>

NothingShown ==
    /\ error = "none"
    /\ c_scipy = None
    /\ A_ub = <<>> /\ b_ub = <<>> /\ A_eq = <<>> /\ b_eq = <<>>
    /\ valid_constraints = 0
    /\ linprog_called = FALSE
    /\ iteration_logs = <<>>
    /\ res = None
    /\ final_z = None
    /\ final_xy = None
    /\ table = <<>>

Init ==
    /\ reset_counter = 0
    /\ pc = "form"
    /\ \/ /\ mode \in Modes
          /\ c1 \in ObjVals
          /\ c2 \in ObjVals
          /\ constraints_data \in Forms
       \/ /\ mode \in Modes
          /\ c1 \in {3000, -3000}
          /\ c2 \in {5000, -5000}
          /\ constraints_data = TextbookRows
    /\ NothingShown

\* if solve_btn: ... (lines 93-179), one run of the script with the button pressed.
\* Pressing the button again on an unchanged form repeats the same run, so a
\* second press is not followed.
Solve ==
    /\ pc = "form"
    /\ pc' = "shown"
    /\ UNCHANGED formVars
    /\ LET std == StandardForm(constraints_data)
           c == CScipy(mode, c1, c2)
           v == Validation(c1, c2, std.valid)
       IN  IF v = "EmptyObjective"
           THEN /\ error' = v
                /\ c_scipy' = None
                /\ A_ub' = <<>> /\ b_ub' = <<>> /\ A_eq' = <<>> /\ b_eq' = <<>>
                /\ valid_constraints' = 0
                /\ linprog_called' = FALSE
                /\ iteration_logs' = <<>>
                /\ res' = None
                /\ final_z' = None /\ final_xy' = None /\ table' = <<>>
           ELSE /\ c_scipy' = c
                /\ A_ub' = std.A_ub /\ b_ub' = std.b_ub
                /\ A_eq' = std.A_eq /\ b_eq' = std.b_eq
                /\ valid_constraints' = std.valid
                /\ IF v = "NoValidConstraints"
                   THEN /\ error' = v
                        /\ linprog_called' = FALSE
                        /\ iteration_logs' = <<>>
                        /\ res' = None
                        /\ final_z' = None /\ final_xy' = None /\ table' = <<>>
                   ELSE \E r \in Linprog(c, std.A_ub, std.b_ub, std.A_eq, std.b_eq) :
                        /\ linprog_called' = TRUE
                        /\ res' = r[1]
                        /\ iteration_logs' = r[2]
                        /\ IF r[1].success
                           THEN /\ error' = "none"
                                /\ final_z' = FinalZ(mode, r[1].fun)
                                /\ final_xy' = r[1].x
                                /\ table' = ResultTable(mode, r[2],
                                                        FinalZ(mode, r[1].fun), r[1].x)
                           ELSE /\ error' = "SolverError"
                                /\ final_z' = None /\ final_xy' = None /\ table' = <<>>

\* reset_state(): the counter changes every widget key, so the next run
\* renders fresh widgets with their defaults and solve_btn is False
Reset ==
    /\ pc \in {"form", "shown"}
    /\ reset_counter < MaxReset
    /\ reset_counter' = reset_counter + 1
    /\ mode' = "Maximize"
    /\ c1' = 0 /\ c2' = 0
    /\ constraints_data' = [i \in 1..DefaultNumConstraints |-> DefaultRow]
    /\ pc' = "form"
    /\ error' = "none"
    /\ c_scipy' = None
    /\ A_ub' = <<>> /\ b_ub' = <<>> /\ A_eq' = <<>> /\ b_eq' = <<>>
    /\ valid_constraints' = 0
    /\ linprog_called' = FALSE
    /\ iteration_logs' = <<>>
    /\ res' = None
    /\ final_z' = None /\ final_xy' = None /\ table' = <<>>

Next == Solve \/ Reset

Spec == Init /\ [][Next]_vars

\* what the last solve ended with, in the words of the specification
Status ==
    IF pc # "shown" THEN "Idle"
    ELSE IF error = "EmptyObjective" \/ error = "NoValidConstraints" THEN error
    ELSE IF res.status = 0 THEN "Optimal"
    ELSE IF res.status = 2 THEN "Infeasible"
    ELSE "Unbounded"

-----------------------------------------------------------------------------
(* The trace cleaning of lines 157-166 on its own: any raw log, either goal *)

One == <<1, 1>>

RawSamples == [Z : {<<-1, 1>>, Zero, <<1, 2>>}, X : {Zero, One}, Y : {Zero}]

InitClean ==
    /\ reset_counter = 0
    /\ mode \in Modes
    /\ c1 = 0 /\ c2 = 0
    /\ constraints_data = [i \in 1..DefaultNumConstraints |-> DefaultRow]
    /\ pc = "raw"
    /\ error = "none"
    /\ c_scipy = None
    /\ A_ub = <<>> /\ b_ub = <<>> /\ A_eq = <<>> /\ b_eq = <<>>
    /\ valid_constraints = 0
    /\ linprog_called = FALSE
    /\ iteration_logs \in SeqsUpTo(RawSamples, MaxRawLen)
    /\ res = None
    /\ final_z = None
    /\ final_xy = None
    /\ table = <<>>

CleanTrace ==
    /\ pc = "raw"
    /\ pc' = "cleaned"
    /\ table' = StyledTable(IterDf(mode, iteration_logs))
    /\ UNCHANGED <<formVars, stdVars, error, linprog_called, iteration_logs, res,
                   final_z, final_xy>>

NextClean == CleanTrace

SpecClean == InitClean /\ [][NextClean]_vars

-----------------------------------------------------------------------------
(* Properties of a solve, stated on the form as the user filled it in *)

NonEmptyCount ==
    Cardinality({i \in DOMAIN constraints_data :
                    constraints_data[i].x # 0 \/ constraints_data[i].y # 0})

\* the constraint as the user wrote it, at a point
UserSatisfies(con, pt) ==
    LET v == Dot(con.x, con.y, pt)
        r == Int2Rat(con.rhs)
    IN  IF con.rel = "<=" THEN RatLeq(v, r)
        ELSE IF con.rel = ">=" THEN RatLeq(r, v)
        ELSE v = r

UserFeasible(pt) ==
    /\ RatLeq(Zero, pt[1]) /\ RatLeq(Zero, pt[2])
    /\ \A i \in DOMAIN constraints_data :
          \/ constraints_data[i].x = 0 /\ constraints_data[i].y = 0
          \/ UserSatisfies(constraints_data[i], pt)

UserObjective(pt) == Dot(c1, c2, pt)

\* value a is strictly better than value b for the chosen goal
StrictlyBetter(a, b) == IF mode = "Maximize" THEN RatLess(b, a) ELSE RatLess(a, b)

\* Points every optimum is measured against: all corners the user's
\* constraints and the axes can form, and a grid of whole points.
UserLines ==
    {<<1, 0, 0>>, <<0, 1, 0>>}
    \cup {<<constraints_data[i].x, constraints_data[i].y, constraints_data[i].rhs>> :
            i \in {j \in DOMAIN constraints_data :
                    constraints_data[j].x # 0 \/ constraints_data[j].y # 0}}

GridMax == 3

RivalPoints ==
    {Intersection(q[1], q[2]) : q \in {r \in UserLines \X UserLines : Det(r[1], r[2]) # 0}}
    \cup {<<Int2Rat(i), Int2Rat(j)>> : i \in 0..GridMax, j \in 0..GridMax}

IsTextbook ==
    /\ mode = "Maximize" /\ c1 = 3000 /\ c2 = 5000
    /\ constraints_data = TextbookRows

\* C1: whenever a solve ends Optimal, the reported vertex is >= 0, satisfies
\* every non-empty constraint as the user entered it, the reported objective
\* value is the objective at that vertex, and no feasible point is strictly
\* better for the chosen goal; the textbook problem ends Optimal at (2, 6)
\* with objective value 36000.
C1_OptimalIsFeasibleAndBest ==
    /\ Status = "Optimal" =>
          /\ UserFeasible(final_xy)
          /\ final_z = UserObjective(final_xy)
          /\ \A pt \in RivalPoints :
                UserFeasible(pt) => ~StrictlyBetter(UserObjective(pt), final_z)
    /\ (pc = "shown" /\ IsTextbook) =>
          /\ Status = "Optimal"
          /\ final_xy = <<Int2Rat(2), Int2Rat(6)>>
          /\ final_z = Int2Rat(36000)

C1_Witness ==
    /\ Status = "Optimal" /\ IsTextbook
    /\ final_xy = <<Int2Rat(2), Int2Rat(6)>> /\ final_z = Int2Rat(36000)

OtherMode(m) == IF m = "Maximize" THEN "Minimize" ELSE "Maximize"

\* the table the other goal would show for the same solver answer
DualTable == ResultTable(OtherMode(mode), iteration_logs,
                         FinalZ(OtherMode(mode), res.fun), res.x)

\* C2: the problem (goal, c) and the problem (other goal, -c) over the same
\* constraints give linprog the same objective and the same matrices, fail
\* validation alike, end with the same solver status, and for the same
\* solver answer show the same vertex, the negated objective value and a
\* table of the same rows with each objective value negated.
C2_SignDuality ==
    pc = "shown" =>
        /\ ObjectiveEmpty(-c1, -c2) <=> ObjectiveEmpty(c1, c2)
        /\ Validation(-c1, -c2, StandardForm(constraints_data).valid) = 
              (IF error = "SolverError" THEN "none" ELSE error)
        /\ error # "EmptyObjective" => CScipy(OtherMode(mode), -c1, -c2) = c_scipy
        /\ linprog_called =>
              LinprogStatus(CScipy(OtherMode(mode), -c1, -c2), A_ub, b_ub, A_eq, b_eq)
                    = res.status
        /\ Status = "Optimal" =>
              /\ FinalZ(OtherMode(mode), res.fun) = RatNeg(final_z)
              /\ res.x = final_xy
              /\ Len(DualTable) = Len(table)
              /\ \A i \in DOMAIN table :
                    /\ DualTable[i].Z = RatNeg(table[i].Z)
                    /\ DualTable[i].X = table[i].X
                    /\ DualTable[i].Y = table[i].Y
                    /\ DualTable[i].Step = table[i].Step

C2_Witness ==
    /\ Status = "Optimal" /\ mode = "Maximize" /\ c1 = 1 /\ c2 = 1
    /\ final_z = Int2Rat(2)
    /\ Len(table) = 2 /\ table[1].Z = Zero /\ table[2].Z = Int2Rat(2)

\* C3: a solve of a form whose objective coefficients are both zero shows
\* the empty-objective error whatever the goal and the constraints; linprog
\* is not called and no value, vertex or table is shown.
C3_EmptyObjectiveRejected ==
    (pc = "shown" /\ c1 = 0 /\ c2 = 0) =>
        /\ error = "EmptyObjective"
        /\ linprog_called = FALSE
        /\ res = None /\ iteration_logs = <<>>
        /\ final_z = None /\ final_xy = None /\ table = <<>>

C3_Witness ==
    /\ pc = "shown" /\ c1 = 0 /\ c2 = 0 /\ error = "EmptyObjective"
    /\ NonEmptyCount = 0 /\ Len(constraints_data) = 2
    /\ constraints_data[1].rel = ">="

\* C4: with a non-zero objective, a form whose constraints all have
\* coefficients (0, 0) ends with the no-valid-constraints error and linprog
\* is not called; if some constraint has a non-zero coefficient that error
\* is not shown and exactly the non-empty constraints reach the matrices.
C4_NoValidConstraints ==
    (pc = "shown" /\ ~(c1 = 0 /\ c2 = 0)) =>
        /\ NonEmptyCount = 0 =>
              /\ error = "NoValidConstraints"
              /\ linprog_called = FALSE
              /\ final_z = None /\ final_xy = None /\ table = <<>>
        /\ NonEmptyCount > 0 =>
              /\ error # "NoValidConstraints"
              /\ linprog_called = TRUE
              /\ valid_constraints = NonEmptyCount
              /\ Len(A_ub) + Len(A_eq) = NonEmptyCount

C4_Witness ==
    /\ pc = "shown" /\ c1 = 1 /\ c2 = -1
    /\ Len(constraints_data) = 1
    /\ constraints_data[1] = [x |-> 0, y |-> 0, rel |-> "=", rhs |-> 2]
    /\ error = "NoValidConstraints"

\* a constraint that still holds after x or y grows
NotUpperBounding(con) ==
    \/ con.x = 0 /\ con.y = 0
    \/ con.rel = "<=" /\ con.x <= 0 /\ con.y <= 0
    \/ con.rel = ">=" /\ con.x >= 0 /\ con.y >= 0

MaximizeXPlusYOpenAbove ==
    /\ pc = "shown" /\ mode = "Maximize" /\ c1 = 1 /\ c2 = 1
    /\ \A i \in DOMAIN constraints_data : NotUpperBounding(constraints_data[i])

UnboundedShown ==
    /\ Status = "Unbounded" /\ error = "SolverError"
    /\ final_z = None /\ final_xy = None /\ table = <<>>

\* C5 as claimed: Maximize x + y over a form none of whose constraints
\* bounds the region from above always ends Unbounded, as a solver outcome
\* with no value, vertex or table.
C5_UnboundedAsClaimed == MaximizeXPlusYOpenAbove => UnboundedShown

\* C5 amended: it ends Unbounded when the form holds at least one non-empty
\* constraint; when every constraint is empty it ends with the
\* no-valid-constraints error and linprog is not called.
C5_UnboundedAmended ==
    MaximizeXPlusYOpenAbove =>
        /\ NonEmptyCount > 0 => UnboundedShown
        /\ NonEmptyCount = 0 => error = "NoValidConstraints" /\ linprog_called = FALSE

C5_Witness ==
    /\ MaximizeXPlusYOpenAbove /\ UnboundedShown
    /\ Len(constraints_data) = 2
    /\ constraints_data[1].rel = ">=" /\ constraints_data[1].x = 1
    /\ constraints_data[2].rel = ">=" /\ constraints_data[2].y = 1

IsUbRow(con) == (con.x # 0 \/ con.y # 0) /\ con.rel \in {"<=", ">="}
IsEqRow(con) == (con.x # 0 \/ con.y # 0) /\ con.rel = "="

TransformAsClaimed ==
    LET ub == SelectSeq(constraints_data, IsUbRow)
        eq == SelectSeq(constraints_data, IsEqRow)
    IN  /\ A_ub = [i \in 1..Len(ub) |->
                    IF ub[i].rel = "<=" THEN <<ub[i].x, ub[i].y>>
                                        ELSE <<-ub[i].x, -ub[i].y>>]
        /\ b_ub = [i \in 1..Len(ub) |->
                    IF ub[i].rel = "<=" THEN ub[i].rhs ELSE -ub[i].rhs]
        /\ A_eq = [i \in 1..Len(eq) |-> <<eq[i].x, eq[i].y>>]
        /\ b_eq = [i \in 1..Len(eq) |-> eq[i].rhs]
        /\ Len(A_ub) + Len(A_eq) = NonEmptyCount
        /\ Len(b_ub) = Len(A_ub) /\ Len(b_eq) = Len(A_eq)

\* C6: a solve leaves the form's constraint list as it was, and when it
\* builds the matrices, A_ub/b_ub hold in input order one row per non-empty
\* '<=' constraint (unchanged) and per non-empty '>=' constraint (coefficients
\* and rhs negated), A_eq/b_eq hold in input order the non-empty '='
\* constraints unchanged, and the rows number the non-empty constraints.
C6_StandardForm ==
    [][(pc = "form" /\ pc' = "shown") =>
            /\ constraints_data' = constraints_data
            /\ error' # "EmptyObjective" => TransformAsClaimed']_vars

C6_Witness ==
    /\ pc = "shown" /\ error # "EmptyObjective"
    /\ Len(constraints_data) = 2
    /\ constraints_data[1] = [x |-> 1, y |-> 1, rel |-> ">=", rhs |-> 2]
    /\ constraints_data[2] = [x |-> 1, y |-> 0, rel |-> "<=", rhs |-> 2]
    /\ A_ub = << <<-1, -1>>, <<1, 0>> >> /\ b_ub = <<-2, 2>>
    /\ A_eq = <<>>

-----------------------------------------------------------------------------
(* Properties of the cleaned trace *)

Tuple(r) == <<r.Z, r.X, r.Y>>

\* the raw samples with the objective value in the user's sign
SignCorrected(m, logs) ==
    [i \in DOMAIN logs |->
        <<IF m = "Maximize" THEN RatNeg(logs[i].Z) ELSE logs[i].Z, logs[i].X, logs[i].Y>>]

FirstIndex(t, tuples) ==
    CHOOSE i \in DOMAIN tuples : tuples[i] = t /\ \A j \in 1..(i - 1) : tuples[j] # t

\* C7: the cleaned trace holds no tuple twice, holds exactly the tuples of
\* the sign-corrected raw trace, lists them in the order in which they first
\* occur there, and numbers its rows 0, 1, 2, ...
C7_DeduplicatedInOrder ==
    pc = "cleaned" =>
        LET raw == SignCorrected(mode, iteration_logs)
        IN  /\ \A i, j \in DOMAIN table : i # j => Tuple(table[i]) # Tuple(table[j])
            /\ {Tuple(table[i]) : i \in DOMAIN table} = {raw[i] : i \in DOMAIN raw}
            /\ \A i, j \in DOMAIN table :
                  i < j => FirstIndex(Tuple(table[i]), raw) < FirstIndex(Tuple(table[j]), raw)
            /\ \A i \in DOMAIN table : table[i].Step = i - 1

C7_Witness ==
    /\ pc = "cleaned" /\ mode = "Maximize"
    /\ Len(iteration_logs) = 4
    /\ iteration_logs[1] = iteration_logs[3]
    /\ iteration_logs[1] # iteration_logs[2]
    /\ iteration_logs[4] = iteration_logs[2]
    /\ iteration_logs[1].Z = <<1, 2>>
    /\ Len(table) = 2 /\ table[1].Z = <<-1, 2>>

\* the records a table would feed back into the cleaning
AsLogs(df) == [i \in DOMAIN df |-> [Z |-> df[i].Z, X |-> df[i].X, Y |-> df[i].Y]]

CleanedOnce == IterDf(mode, iteration_logs)
CleanedTwice == IterDf(mode, AsLogs(IterDf(mode, iteration_logs)))

\* C8 as claimed: cleaning the cleaned trace again, with the same goal,
\* gives the cleaned trace.
C8_IdempotentAsClaimed == pc = "cleaned" => CleanedTwice = CleanedOnce

\* C8 amended: for Minimize cleaning twice equals cleaning once; for
\* Maximize the second cleaning negates every objective value again, so
\* the result is the once-cleaned trace with each objective value negated.
C8_IdempotentAmended ==
    pc = "cleaned" =>
        /\ Len(CleanedTwice) = Len(CleanedOnce)
        /\ \A i \in DOMAIN CleanedOnce :
              /\ CleanedTwice[i].Step = CleanedOnce[i].Step
              /\ CleanedTwice[i].X = CleanedOnce[i].X
              /\ CleanedTwice[i].Y = CleanedOnce[i].Y
              /\ CleanedTwice[i].Z = IF mode = "Maximize" THEN RatNeg(CleanedOnce[i].Z)
                                                          ELSE CleanedOnce[i].Z
        /\ AsLogs(table) = AsLogs(CleanedOnce)

C8_Witness ==
    /\ pc = "cleaned" /\ mode = "Maximize"
    /\ Len(iteration_logs) = 3
    /\ iteration_logs[1] = iteration_logs[3]
    /\ iteration_logs[1].Z = <<-1, 1>> /\ iteration_logs[2].Z = <<1, 2>>
    /\ Len(table) = 2
    /\ CleanedTwice # CleanedOnce

DistinctSamples == {Tuple(iteration_logs[i]) : i \in DOMAIN iteration_logs}

\* C9: an Optimal solve never shows an empty trace; when the callback
\* recorded at most one vertex (one sample, repeated or not, or none at
\* all) the trace has exactly one row, which carries the final objective
\* value and vertex and is the row marked final.
C9_ZeroIterationAsClaimed ==
    Status = "Optimal" =>
        /\ table # <<>>
        /\ Cardinality(DistinctSamples) <= 1 =>
              /\ Len(table) = 1
              /\ Tuple(table[1]) = <<final_z, final_xy[1], final_xy[2]>>
              /\ table[1].bold

\* C10: in an Optimal solve whose callback recorded something, exactly one
\* row of the table is marked final, it is the last row, its values are the
\* last raw sample in the user's sign and the reported optimum, and the
\* marking leaves the values of IterDf as they are.
C10_FinalRowAsClaimed ==
    (Status = "Optimal" /\ iteration_logs # <<>>) =>
        LET raw == SignCorrected(mode, iteration_logs)
            n == Len(table)
        IN  /\ Cardinality({i \in DOMAIN table : table[i].bold}) = 1
            /\ table[n].bold
            /\ Tuple(table[n]) = raw[Len(raw)]
            /\ Tuple(table[n]) = <<final_z, final_xy[1], final_xy[2]>>
            /\ AsLogs(table) = AsLogs(IterDf(mode, iteration_logs))

====
